---- MODULE Spec2Model ----
(***************************************************************************)
(* Budget Manager Cloud, client side: the URL router and tab switching of  *)
(* the main page (URLRouter, showTab) and the exchange-rate table of the   *)
(* main page and of the Plaid page (customRates, loadExchangeRates,        *)
(* updateCustomRate), and the converters that read the table               *)
(* (convertCurrencyAmount, updateCurrencyPair, convertAccountCurrency,     *)
(* convertCurrency).                                                       *)
(*                                                                         *)
(* Paths are JavaScript strings and are modelled as TLA+ strings: Len,     *)
(* SubSeq and \o are the string's length, substring and concatenation.     *)
(* Rates are numbers; the model keeps them as integers in hundredths       *)
(* (1.35 is 135), and a response or a typed value is a small integer.      *)
(***************************************************************************)
EXTENDS Integers, Sequences, FiniteSets, TLC

VARIABLES
    basePath,       \* URLRouter.basePath
    entries,        \* the session history of the document: a sequence of paths
    idx,            \* the current history entry; location.pathname = entries[idx]
    activePanels,   \* ids of the .tab-content elements whose classList has 'active'
    activeButtons,  \* views whose .tab button has 'active'
    timers,         \* setTimeout(..., 0) callbacks of handleRoute not yet run, in order
    started,        \* the data load the last showTab call started
    navLast,        \* what the last step of the page did (history of one step)
    unloading,      \* window.location.href has been assigned: the document is
                    \* about to be replaced by the Plaid page
    resolved,       \* the last direct resolution of a path by handleRoute
    app,            \* which page is loaded: "main" (app.js) or "plaid" (plaid_app.js)
    customRates,    \* the global rate table
    issued,         \* number of loadExchangeRates calls made so far
    pending,        \* the calls suspended at await fetch(...)
    newest,         \* the highest call number whose response has been applied
    refreshing,     \* main page: the .refresh-rates button is disabled
    rateLast,       \* the last step on the rate table; for a finished call: how the
                    \* response ended it, whether it held all four codes, its value
    shown,          \* the last conversion: the routine, what it read, what it displays
    dashPc,         \* where loadDashboard is: the await it is suspended at
    listsPending,   \* the apiCall promises of its Promise.all not yet settled
    dashReq,        \* the loadExchangeRates call loadDashboard awaits (0: none)
    dashLog,        \* what loadDashboard has started and seen settle, in order
    dashFailed,     \* the stages of loadDashboard whose request failed
    assetsLoading,  \* let assetsLoading
    assetRuns,      \* the loadAssets runs suspended at await fetch(...)
    assetCalls,     \* number of loadAssets calls made so far
    assetsLast,     \* the last step of loadAssets
    plaidButton,    \* the .refresh-plaid button: disabled, textContent, and
                    \* whether its last call has written the usage counter
    plaidStage,     \* where refreshPlaidCounter is
    submits,        \* per form, the submit handlers suspended at await apiCall
    formLast        \* what the last submit handler to resume did

navVars ==
    <<basePath, entries, idx, activePanels, activeButtons, timers, started, navLast,
      unloading>>
rateVars == <<app, customRates, issued, pending, newest, refreshing, rateLast>>
dashVars ==
    <<dashPc, listsPending, dashReq, dashLog, dashFailed, assetsLoading, assetRuns,
      assetCalls, assetsLast>>
buttonVars == <<plaidButton, plaidStage>>
formVars == <<submits, formLast>>
pageVars == <<dashVars, buttonVars, formVars>>
vars == <<navVars, resolved, rateVars, shown, pageVars>>

(***************************************************************************)
(* Bounds of the model.                                                    *)
(***************************************************************************)
MaxHistory == 3     \* history entries kept
MaxTimers == 2      \* deferred showTab callbacks waiting at once
MaxPieces == 3      \* pieces a probed path is built from
MaxRequests == 2    \* loadExchangeRates calls made in one run
MaxRate == 2        \* largest rate value a response or an input field carries
MaxAmount == 1      \* largest whole part of an amount or a balance that is converted

(***************************************************************************)
(* Strings.                                                                *)
(***************************************************************************)
\* String.prototype.startsWith
StartsWith(s, prefix) ==
    /\ Len(prefix) <= Len(s)
    /\ SubSeq(s, 1, Len(prefix)) = prefix

\* String.prototype.includes
Includes(s, part) ==
    \E i \in 1..(Len(s) - Len(part) + 1) : SubSeq(s, i, i + Len(part) - 1) = part

(***************************************************************************)
(* URLRouter: the route tables.                                            *)
(***************************************************************************)
GitHubPagesBase == "/budget-manager-cloud"

\* constructor: the base path is read off the path the page was loaded on
DetectBasePath(pathname) ==
    IF Includes(pathname, GitHubPagesBase \o "/") THEN GitHubPagesBase ELSE ""

BasePaths == {"", GitHubPagesBase}

\* this.routes, in the insertion order Object.entries walks it in
Routes(base) ==
    << [route |-> base \o "/",             tab |-> "dashboard"],
       [route |-> base \o "/banks",        tab |-> "banks"],
       [route |-> base \o "/transactions", tab |-> "transactions"],
       [route |-> base \o "/advisor",      tab |-> "advisor"] >>

RegisteredPaths(base) == {Routes(base)[i].route : i \in 1..Len(Routes(base))}

DefaultTab == "dashboard"

\* handleRoute without the fallback to 'dashboard' (tabName stays undefined)
HandleRouteNoFallback(base, path) ==
    LET R      == Routes(base)
        exact  == {i \in 1..Len(R) : R[i].route = path}
        prefix == {i \in 1..Len(R) : StartsWith(path, R[i].route)}
    IN  IF exact # {} THEN R[CHOOSE i \in exact : TRUE].tab
        ELSE IF prefix # {}
             THEN R[CHOOSE i \in prefix : \A j \in prefix : i <= j].tab
             ELSE "undefined"

\* handleRoute: the tab name it hands to showTab
HandleRoute(base, path) ==
    LET R      == Routes(base)
        exact  == {i \in 1..Len(R) : R[i].route = path}
        prefix == {i \in 1..Len(R) : StartsWith(path, R[i].route)}
    IN  IF exact # {} THEN R[CHOOSE i \in exact : TRUE].tab
        ELSE IF prefix # {}
             \* the loop breaks at the first route, in insertion order, that matches
             THEN R[CHOOSE i \in prefix : \A j \in prefix : i <= j].tab
             ELSE DefaultTab

RoutedViews == {"dashboard", "banks", "transactions", "advisor"}

\* routeMap with the paths of two views exchanged
RouteMapSwapped(base) ==
    [v \in RoutedViews |->
        CASE v = "dashboard"    -> base \o "/"
          [] v = "banks"        -> base \o "/transactions"
          [] v = "transactions" -> base \o "/banks"
          [] v = "advisor"      -> base \o "/advisor"]

\* navigateToTab: routeMap
RouteMap(base) ==
    [v \in RoutedViews |->
        CASE v = "dashboard"    -> base \o "/"
          [] v = "banks"        -> base \o "/banks"
          [] v = "transactions" -> base \o "/transactions"
          [] v = "advisor"      -> base \o "/advisor"]

(***************************************************************************)
(* The page: the panels and buttons of the document, and showTab.          *)
(***************************************************************************)
\* ids of the .tab-content panels of the page
Panels == {"dashboard", "banks", "accounts", "transactions", "reports", "advisor"}

\* views that have a navigation button whose onclick calls showTab
Buttons == Panels

\* names showTab is called with: the panels and one name that is no panel
TabNames == Panels \cup {"settings"}

\* showTab that starts a load only when the tab was not the active one
LoadForWhenChanged(tabName) ==
    IF activePanels = {tabName} THEN "none"
    ELSE CASE tabName = "banks"        -> "loadBanksForManagement"
           [] tabName = "accounts"     -> "loadAccounts"
           [] tabName = "transactions" -> "loadTransactions"
           [] tabName = "reports"      -> "loadReports"
           [] OTHER                    -> "none"

\* the load showTab starts for a tab
LoadFor(tabName) ==
    CASE tabName = "banks"        -> "loadBanksForManagement"
      [] tabName = "accounts"     -> "loadAccounts"
      [] tabName = "transactions" -> "loadTransactions"
      [] tabName = "reports"      -> "loadReports"
      [] OTHER                    -> "none"

\* showTab that calls navigateToTab for 'dashboard' too
PushesEveryRoutedView(tabName) == tabName \in DOMAIN RouteMap(basePath)

\* showTab: true when navigateToTab calls history.pushState for this tab
Pushes(tabName) == tabName # "dashboard" /\ tabName \in DOMAIN RouteMap(basePath)

\* showTab(tabName), called by `op` (for a timer: queued by `origin`)
ShowTab(tabName, op, origin) ==
    IF tabName \notin Panels
    THEN \* every 'active' class is removed, then getElementById(tabName) is null
         \* and .classList throws: the rest of the function does not run
         /\ activePanels' = {}
         /\ activeButtons' = {}
         /\ UNCHANGED <<entries, idx, started>>
         /\ navLast' = [op |-> op, tab |-> tabName, origin |-> origin, threw |-> TRUE,
                        pushed |-> FALSE, lenBefore |-> Len(entries), again |-> FALSE]
    ELSE /\ activePanels' = {tabName}
         /\ activeButtons' = IF tabName \in Buttons THEN {tabName} ELSE {}
         /\ IF Pushes(tabName)
            THEN \* history.pushState drops the entries after the current one
                 /\ idx < MaxHistory
                 /\ entries' = Append(SubSeq(entries, 1, idx), RouteMap(basePath)[tabName])
                 /\ idx' = idx + 1
            ELSE UNCHANGED <<entries, idx>>
         /\ started' = LoadFor(tabName)
         /\ navLast' = [op |-> op, tab |-> tabName, origin |-> origin, threw |-> FALSE,
                        pushed |-> Pushes(tabName), lenBefore |-> Len(entries),
                        \* the step before this one was a showTab of the same tab
                        again |-> (/\ navLast.op \in {"call", "timer", "goHomeNoURL"}
                                   /\ ~navLast.threw
                                   /\ navLast.tab = tabName)]

\* a navigation button's onclick, or any other call of showTab(name)
CallShowTab(name) ==
    /\ app = "main"
    /\ ShowTab(name, "call", "")
    /\ UNCHANGED <<pageVars, basePath, timers, unloading, resolved, rateVars, shown>>

\* goHomeNoURL
GoHomeNoURL ==
    /\ app = "main"
    /\ ShowTab("dashboard", "goHomeNoURL", "")
    /\ UNCHANGED <<pageVars, basePath, timers, unloading, resolved, rateVars, shown>>

\* the browser's back or forward button: the popstate listener of init()
Popstate(target) ==
    /\ app = "main"
    /\ target # idx
    /\ Len(timers) < MaxTimers
    /\ idx' = target
    /\ timers' = Append(timers, [tab |-> HandleRoute(basePath, entries[target]),
                                 origin |-> "popstate"])
    /\ navLast' = [op |-> "popstate", tab |-> HandleRoute(basePath, entries[target]),
                   origin |-> "", threw |-> FALSE, pushed |-> FALSE,
                   lenBefore |-> Len(entries), again |-> FALSE]
    /\ UNCHANGED <<pageVars, basePath, entries, activePanels, activeButtons, started, unloading,
                   resolved, rateVars, shown>>

\* the setTimeout(..., 0) callback of handleRoute
RunTimer ==
    /\ app = "main"
    /\ timers # << >>
    /\ ShowTab(Head(timers).tab, "timer", Head(timers).origin)
    /\ timers' = Tail(timers)
    /\ UNCHANGED <<pageVars, basePath, unloading, resolved, rateVars, shown>>

\* the navigation started by `window.location.href = '/plaid_management.html'`
\* commits: the document of the main page, its panels and its timers are
\* gone, and the Plaid page is loaded
LeaveForPlaidPage ==
    /\ app = "main"
    /\ unloading
    /\ app' = "plaid"
    /\ unloading' = FALSE
    /\ entries' = Append(SubSeq(entries, 1, idx), "/plaid_management.html")
    /\ idx' = idx + 1
    /\ activePanels' = {}
    /\ activeButtons' = {}
    /\ timers' = << >>
    /\ navLast' = [op |-> "unload", tab |-> "", origin |-> "", threw |-> FALSE,
                   pushed |-> FALSE, lenBefore |-> Len(entries), again |-> FALSE]
    /\ UNCHANGED <<pageVars, basePath, started, resolved, customRates, issued, pending, newest,
                   refreshing, rateLast, shown>>

\* paths the page is loaded on
StartPaths ==
    {"/", "/banks", "/transactions", "/advisor", "/banks/123", "/unknown",
     "/budget-manager-cloud/", "/budget-manager-cloud/banks",
     "/budget-manager-cloud/advisor", "/budget-manager-cloud/unknown",
     "/app/banks"}

\* localStorage.getItem('currentPage') when the script starts
StoredPages == {"", "plaid_management"}

\* the page as it is once the script has run: the restore block at its top
\* has sent the browser to the Plaid page if localStorage says so and the
\* path is '/'; new URLRouter() has called init(), which resolved the
\* current path and queued the first showTab
NavInit ==
    /\ \E p \in StartPaths, currentPage \in StoredPages :
          /\ unloading = (currentPage = "plaid_management" /\ p = "/")
          /\ basePath = DetectBasePath(p)
          /\ entries = <<p>>
          /\ timers = <<[tab |-> HandleRoute(DetectBasePath(p), p), origin |-> "load"]>>
          /\ navLast = [op |-> "load", tab |-> HandleRoute(DetectBasePath(p), p),
                        origin |-> "", threw |-> FALSE, pushed |-> FALSE, lenBefore |-> 1,
                        again |-> FALSE]
    /\ idx = 1
    /\ activePanels = {"dashboard"}
    /\ activeButtons = {"dashboard"}
    /\ started = "none"

NavNext ==
    \/ \E name \in TabNames : CallShowTab(name)
    \/ GoHomeNoURL
    \/ \E target \in 1..Len(entries) : Popstate(target)
    \/ RunTimer
    \/ LeaveForPlaidPage

\* the page when the router is not what is being exercised
NavIdle ==
    /\ basePath = ""
    /\ entries = <<"/">>
    /\ idx = 1
    /\ activePanels = {"dashboard"}
    /\ activeButtons = {"dashboard"}
    /\ timers = << >>
    /\ started = "none"
    /\ unloading = FALSE
    /\ navLast = [op |-> "load", tab |-> "dashboard", origin |-> "", threw |-> FALSE,
                  pushed |-> FALSE, lenBefore |-> 1, again |-> FALSE]

(***************************************************************************)
(* handleRoute and routeMap applied to paths and views given directly, one *)
(* call in a run.                                                          *)
(***************************************************************************)
Pieces ==
    {"/", "/banks", "/transactions", "/advisor", "/unknown", "/123",
     "/budget-manager-cloud", "/app", "y"}

RECURSIVE PathsOf(_)
\* the paths made of at most n pieces, the first of which starts with "/"
PathsOf(n) ==
    IF n <= 1 THEN Pieces \ {"y"}
    ELSE PathsOf(n - 1) \cup {p \o q : p \in PathsOf(n - 1), q \in Pieces}

ProbePaths == PathsOf(MaxPieces)

\* router.handleRoute(path) on a router built with `base`
ResolvePath(base, path) ==
    /\ resolved.op = "none"
    /\ resolved' = [op |-> "path", base |-> base, path |-> path, view |-> "",
                    tab |-> HandleRoute(base, path)]
    /\ UNCHANGED <<pageVars, navVars, rateVars, shown>>

\* the path navigateToTab pushes for `view`, resolved again by handleRoute
ResolveView(base, view) ==
    /\ resolved.op = "none"
    /\ view \in DOMAIN RouteMap(base)
    /\ resolved' = [op |-> "view", base |-> base, path |-> RouteMap(base)[view],
                    view |-> view, tab |-> HandleRoute(base, RouteMap(base)[view])]
    /\ UNCHANGED <<pageVars, navVars, rateVars, shown>>

\* base paths a deployment serves the page under: the domain root, the GitHub
\* Pages project path, and one other subpath
DeploymentBases == {"", "/app", GitHubPagesBase}

\* what follows the base path in the URL the page is opened at
ServedSuffixes == {"/", "/banks", "/transactions", "/advisor", "/unknown", "/banks/123"}

\* window.location.pathname when the script runs
ServedPaths == {b \o s : b \in DeploymentBases, s \in ServedSuffixes}

\* new URLRouter() on a page opened at `pathname`: the constructor reads the
\* base path off the pathname and init() resolves the pathname
Construct(pathname) ==
    /\ resolved.op = "none"
    /\ resolved' = [op |-> "load", base |-> DetectBasePath(pathname), path |-> pathname,
                    view |-> "",
                    tab |-> HandleRoute(DetectBasePath(pathname), pathname)]
    /\ UNCHANGED <<pageVars, navVars, rateVars, shown>>

RouteIdle == resolved = [op |-> "none", base |-> "", path |-> "", view |-> "", tab |-> ""]

RouteNext ==
    \/ \E base \in BasePaths, path \in ProbePaths : ResolvePath(base, path)
    \/ \E base \in BasePaths, view \in TabNames : ResolveView(base, view)
    \/ \E pathname \in ServedPaths : Construct(pathname)


(***************************************************************************)
(* The rate table: customRates, loadExchangeRates, updateCustomRate.       *)
(***************************************************************************)
Currencies == {"USD", "CAD", "EUR", "UAH", "RUB"}
BaseCurrency == "USD"
NonBase == Currencies \ {BaseCurrency}

\* let customRates = {...}, in hundredths
InitialRates ==
    [c \in Currencies |->
        CASE c = "USD" -> 100
          [] c = "CAD" -> 135
          [] c = "EUR" -> 85
          [] c = "UAH" -> 4100
          [] c = "RUB" -> 8300]

\* rate values a response or a rate input carries (0: a falsy entry)
RateVals == 0..MaxRate

\* What fetch(apiUrl) settles with. net: the promise rejects or resolves;
\* status: response.ok; body: not JSON, JSON without .rates, or JSON with
\* .rates, in which the codes of `has` are present, each with the value v.
\* A response whose status is not ok carries any of the bodies too; of those
\* with .rates the model takes the ones that hold all four codes.
Responses ==
    {[net |-> "reject", status |-> FALSE, body |-> "none", has |-> {}, v |-> 0]}
    \cup {[net |-> "ok", status |-> s, body |-> b, has |-> {}, v |-> 0] :
             s \in BOOLEAN, b \in {"notjson", "norates"}}
    \cup {[net |-> "ok", status |-> TRUE, body |-> "rates", has |-> h, v |-> x] :
             h \in SUBSET NonBase, x \in RateVals}
    \cup {[net |-> "ok", status |-> FALSE, body |-> "rates", has |-> NonBase, v |-> x] :
             x \in RateVals}

\* how a response ends the call
Kind(resp) ==
    IF resp.net = "reject" THEN "reject"
    ELSE IF ~resp.status THEN "status"
    ELSE resp.body

\* loadExchangeRates without the response.ok check
ReachesAssignmentsNoStatusCheck(page, resp) ==
    /\ resp.net = "ok"
    /\ resp.body = "rates"

\* loadExchangeRates: the try block gets as far as the assignments. On the
\* main page a body without .rates throws 'Нет данных о курсах'; on the Plaid
\* page reading data.rates.CAD of such a body throws a TypeError.
ReachesAssignments(page, resp) ==
    /\ resp.net = "ok"
    /\ resp.status
    /\ resp.body = "rates"

\* the entries of customRates the call assigns: USD, and each code whose
\* value in the response is truthy
Written(page, resp) ==
    IF ReachesAssignments(page, resp)
    THEN {BaseCurrency} \cup {c \in resp.has : resp.v # 0}
    ELSE {}

\* customRates after the call has handled the response
RatesAfter(page, rates, resp) ==
    [c \in Currencies |->
        IF c \notin Written(page, resp) THEN rates[c]
        ELSE IF c = BaseCurrency THEN 100
        ELSE resp.v]

\* the exception the try block of loadExchangeRates ends with: the rejection
\* of fetch, Error('HTTP ...'), the SyntaxError of response.json(), and for a
\* body without .rates Error('Нет данных о курсах') on the main page, the
\* TypeError of data.rates.CAD on the Plaid page; "none" when it runs through
Thrown(page, resp) ==
    IF ReachesAssignments(page, resp) THEN "none" ELSE Kind(resp)

\* loadExchangeRates whose catch block throws the error on
SettlesRethrowing(page, resp) ==
    IF Thrown(page, resp) = "none" THEN "resolved" ELSE "rejected"

\* how the promise loadExchangeRates returned settles: try { ... } catch
\* (error) { ... } spans the whole body, and the catch block (console output,
\* on the main page updateRatesUI()) throws nothing
Settles(page, resp) ==
    IF Thrown(page, resp) = "none" THEN "resolved"
    ELSE IF Thrown(page, resp) \in {"reject", "status", "notjson", "norates"}
         THEN "resolved"
         ELSE "rejected"

\* textContent of a refresh button. The scripts write the Russian words
\* given here; the label the markup gives a button is not theirs to know.
LabelMarkup == "markup"
LabelRefresh == "refresh"        \* 'Обновить'
LabelBusy == "refreshing"        \* 'Обновление...'
LabelDone == "refreshed"         \* 'Обновлено!'
LabelError == "error"            \* 'Ошибка!'

\* refreshRates: loadExchangeRates().finally(...) runs the callback that
\* restores the button however the promise settles
RestoresButton(settled) == settled \in {"resolved", "rejected"}

\* a call of loadExchangeRates, up to its await fetch(...); refreshRates
\* (main page) has disabled its button before the call. It writes the label
\* 'Обновление...' with disabled = true and 'Обновить' with disabled =
\* false, so the label of that button follows `refreshing`.
IssueLoad(byButton) ==
    /\ issued < MaxRequests
    /\ byButton /\ app = "main" => refreshing = 0
    /\ issued' = issued + 1
    /\ pending' = pending \cup {issued + 1}
    /\ refreshing' = IF byButton /\ app = "main" THEN issued + 1 ELSE refreshing
    /\ rateLast' = [op |-> "start", kind |-> "none", complete |-> FALSE, v |-> 0, settled |-> "none"]
    /\ UNCHANGED <<app, customRates, newest>>

\* the response of call `req` arrives and the call runs to its end; if
\* refreshRates made the call, its callback restores the button
ApplyResponse(req, resp) ==
    /\ req \in pending
    /\ customRates' = RatesAfter(app, customRates, resp)
    /\ pending' = pending \ {req}
    /\ newest' = IF ReachesAssignments(app, resp) /\ req > newest THEN req ELSE newest
    /\ refreshing' = IF refreshing = req /\ RestoresButton(Settles(app, resp))
                      THEN 0 ELSE refreshing
    /\ rateLast' = [op |-> "finish", kind |-> Kind(resp),
                    complete |-> (Kind(resp) = "rates" /\ resp.has = NonBase),
                    v |-> IF Kind(resp) = "rates" THEN resp.v ELSE 0,
                    settled |-> Settles(app, resp)]
    /\ UNCHANGED <<app, issued>>

\* a call of loadExchangeRates other than loadDashboard's. On the main page
\* it is refreshRates (which disables its button); on the Plaid page it is
\* the DOMContentLoaded handler or refreshExchangeRates.
StartLoad(byButton) ==
    /\ IssueLoad(byButton)
    /\ UNCHANGED <<navVars, resolved, shown, pageVars>>

\* the response of such a call arrives
FinishLoad(req, resp) ==
    /\ req # dashReq
    /\ ApplyResponse(req, resp)
    /\ UNCHANGED <<navVars, resolved, shown, pageVars>>

\* what parseFloat makes of the text of a rate input
InputValues ==
    {[nan |-> TRUE, n |-> 0]} \cup {[nan |-> FALSE, n |-> x] : x \in RateVals}

\* updateCustomRate whose first branch assigns the other currency of the pair
UpdatedCurrencyOtherSide(fromCurrency, toCurrency) ==
    CASE fromCurrency = "CAD" /\ toCurrency = "USD" -> {"USD"}
      [] fromCurrency = "USD" /\ toCurrency = "EUR" -> {"EUR"}
      [] fromCurrency = "USD" /\ toCurrency = "UAH" -> {"UAH"}
      [] fromCurrency = "USD" /\ toCurrency = "RUB" -> {"RUB"}
      [] OTHER -> {}

\* updateCustomRate(fromCurrency, toCurrency, value): the entry it assigns
UpdatedCurrency(fromCurrency, toCurrency) ==
    CASE fromCurrency = "CAD" /\ toCurrency = "USD" -> {"CAD"}
      [] fromCurrency = "USD" /\ toCurrency = "EUR" -> {"EUR"}
      [] fromCurrency = "USD" /\ toCurrency = "UAH" -> {"UAH"}
      [] fromCurrency = "USD" /\ toCurrency = "RUB" -> {"RUB"}
      [] OTHER -> {}

\* argument pairs updateCustomRate is called with: the four it handles, the
\* same four the other way round, and the base currency with itself
UpdatePairs ==
    {<<"CAD", "USD">>, <<"USD", "EUR">>, <<"USD", "UAH">>, <<"USD", "RUB">>,
     <<"USD", "CAD">>, <<"EUR", "USD">>, <<"UAH", "USD">>, <<"RUB", "USD">>,
     <<"USD", "USD">>}

\* updateCustomRate, main page only
UpdateCustomRate(fromCurrency, toCurrency, value) ==
    /\ app = "main"
    /\ LET target == IF value.nan THEN {} ELSE UpdatedCurrency(fromCurrency, toCurrency)
           after  == [c \in Currencies |-> IF c \in target THEN value.n ELSE customRates[c]]
       IN  /\ customRates' = after
           /\ rateLast' = [op |-> "update", kind |-> "none", complete |-> FALSE, v |-> 0, settled |-> "none"]
    /\ UNCHANGED <<app, issued, pending, newest, refreshing, navVars, resolved, shown,
                   pageVars>>

RatesInit ==
    /\ app \in {"main", "plaid"}
    /\ customRates = InitialRates
    /\ issued = 0
    /\ pending = {}
    /\ newest = 0
    /\ refreshing = 0
    /\ rateLast = [op |-> "none", kind |-> "none", complete |-> FALSE, v |-> 0, settled |-> "none"]

RatesNext ==
    \/ \E byButton \in BOOLEAN : StartLoad(byButton)
    \/ \E req \in 1..MaxRequests, resp \in Responses : FinishLoad(req, resp)
    \/ \E pair \in UpdatePairs, value \in InputValues :
          UpdateCustomRate(pair[1], pair[2], value)

\* the rate table when it is not what is being exercised
RatesIdle ==
    /\ app = "main"
    /\ customRates = InitialRates
    /\ issued = 0
    /\ pending = {}
    /\ newest = 0
    /\ refreshing = 0
    /\ rateLast = [op |-> "none", kind |-> "none", complete |-> FALSE, v |-> 0, settled |-> "none"]

(***************************************************************************)
(* The converters: convertCurrencyAmount and updateCurrencyPair of either  *)
(* page, convertAccountCurrency and convertCurrency of the main page.      *)
(*                                                                         *)
(* A number is an exact fraction <<n, d>> in lowest terms with d > 0: the  *)
(* rounding of the binary floating-point operations is not modelled, the   *)
(* rounding of toFixed is. One conversion is made in a run.                *)
(***************************************************************************)
Abs(n) == IF n < 0 THEN -n ELSE n

RECURSIVE GCD(_, _)
GCD(a, b) == IF b = 0 THEN a ELSE GCD(b, a % b)

\* the fraction n / d (d # 0)
Rat(n, d) ==
    LET g == GCD(Abs(n), Abs(d))
    IN  IF d < 0 THEN <<(-n) \div g, (-d) \div g>> ELSE <<n \div g, d \div g>>

\* x * y
RatMul(x, y) == Rat(x[1] * y[1], x[2] * y[2])

\* x / y (y # 0)
RatDiv(x, y) == Rat(x[1] * y[2], x[2] * y[1])

\* Number.prototype.toFixed(digits): the digits of the number rounded to
\* `digits` decimals, as an integer count of 10^-digits; a tie rounds away
\* from zero
ToFixed(x, digits) ==
    LET n == x[1] * (10 ^ digits)
        q == (2 * Abs(n) + x[2]) \div (2 * x[2])
    IN  IF n < 0 THEN -q ELSE q

\* currency codes a converter is handed: those of the table and one the
\* table has no entry for
CurrencyCodes == Currencies \cup {"GBP"}

\* amounts and balances, in thousandths: whole amounts up to MaxAmount of
\* either sign, and each with a fraction below one hundredth
Amounts == {1000 * k + f : k \in (-MaxAmount)..MaxAmount, f \in {0, 4}}

\* what parseFloat makes of the text of the amount field
AmountInputs ==
    {[nan |-> TRUE, n |-> 0]} \cup {[nan |-> FALSE, n |-> x] : x \in Amounts}

\* the rate tables the pages reach: USD stays 1; on the main page any other
\* rate is the initial one, or one a response or a rate input carried; the
\* Plaid page has no rate inputs and a response never stores a zero
RateTables(page) ==
    {r \in [Currencies -> RateVals \cup {InitialRates[c] : c \in Currencies}] :
        /\ r[BaseCurrency] = InitialRates[BaseCurrency]
        /\ \A c \in NonBase :
              r[c] \in {InitialRates[c]} \cup
                       (IF page = "main" THEN RateVals ELSE RateVals \ {0})}

\* customRates[code] as a number
RateOf(rates, code) == Rat(rates[code], 100)

\* customRates[code] as a condition: false for a code the table does not
\* have and for a rate of 0
Truthy(rates, code) == code \in DOMAIN rates /\ rates[code] # 0

\* getCurrencySymbol
GetCurrencySymbol(currency) ==
    CASE currency = "UAH" -> "hryvnia"
      [] currency = "EUR" -> "euro"
      [] OTHER            -> "dollar"

\* main page: usdAmount = amount / customRates[from]; usdAmount * customRates[to]
PivotThroughUSD(rates, amount, from, to) ==
    RatMul(RatDiv(amount, RateOf(rates, from)), RateOf(rates, to))

\* Plaid page: (amount * customRates[to]) / customRates[from]
PlaidConverted(rates, amount, from, to) ==
    RatDiv(RatMul(amount, RateOf(rates, to)), RateOf(rates, from))

\* Plaid page, updateCurrencyPair: customRates[to] / customRates[from]
PlaidPairRate(rates, from, to) ==
    RatDiv(RateOf(rates, to), RateOf(rates, from))

\* what a routine leaves behind: the amount it read (nan: the field held no
\* number), the text it set (kind, and for a number its symbol, its digits
\* after the point and its rounded value), and whether it divided; raw is
\* the number the amount it read was made from
Display(op, nan, amount, from, to, kind, sym, digits, num, divided) ==
    [op |-> op, nan |-> nan, amount |-> amount, from |-> from, to |-> to,
     kind |-> kind, sym |-> sym, digits |-> digits, num |-> num, divided |-> divided,
     raw |-> amount]

\* the display `d` of a routine whose amount was made from the number `raw`
WithRaw(d, raw) == [f \in DOMAIN d |-> IF f = "raw" THEN raw ELSE d[f]]

NoDisplay == Display("none", FALSE, <<0, 1>>, "", "", "none", "", 0, 0, FALSE)

\* convertCurrencyAmount of the main page
MainConvertCurrencyAmount(rates, input, from, to) ==
    LET amount == Rat(input.n, 1000)
        op     == "convertCurrencyAmount"
    IN  IF input.nan \/ input.n <= 0
        THEN \* 'Введите корректную сумму'
             Display(op, input.nan, amount, from, to, "invalid", "", 0, 0, FALSE)
        ELSE IF from = to
        THEN Display(op, FALSE, amount, from, to, "value", GetCurrencySymbol(to), 2,
                     ToFixed(amount, 2), FALSE)
        ELSE IF ~Truthy(rates, from) \/ ~Truthy(rates, to)
        THEN \* 'Курс не найден'
             Display(op, FALSE, amount, from, to, "notfound", "", 0, 0, FALSE)
        ELSE Display(op, FALSE, amount, from, to, "value", GetCurrencySymbol(to), 2,
                     ToFixed(PivotThroughUSD(rates, amount, from, to), 2), TRUE)

\* convertCurrencyAmount of the Plaid page: parseFloat(...) || 0
PlaidConvertCurrencyAmount(rates, input, from, to) ==
    LET amount == IF input.nan THEN <<0, 1>> ELSE Rat(input.n, 1000)
        op     == "convertCurrencyAmount"
    IN  IF from = to
        THEN Display(op, input.nan, amount, from, to, "value", "dollar", 2,
                     ToFixed(amount, 2), FALSE)
        ELSE IF Truthy(rates, from) /\ Truthy(rates, to)
        THEN Display(op, input.nan, amount, from, to, "value", "dollar", 2,
                     ToFixed(PlaidConverted(rates, amount, from, to), 2), TRUE)
        ELSE \* 'Курс не найден'
             Display(op, input.nan, amount, from, to, "notfound", "", 0, 0, FALSE)

\* the converter form: convertCurrencyAmount()
ConvertCurrencyAmount(input, from, to) ==
    /\ shown.op = "none"
    /\ shown' = IF app = "main"
                THEN MainConvertCurrencyAmount(customRates, input, from, to)
                ELSE PlaidConvertCurrencyAmount(customRates, input, from, to)
    /\ UNCHANGED <<pageVars, navVars, resolved, rateVars>>

\* the converter form used a second time: the number the form displays is
\* typed into the amount field, the two selects are exchanged, and
\* convertCurrencyAmount() runs again; raw keeps the amount of the first run
ConvertBack ==
    /\ shown.op = "convertCurrencyAmount"
    /\ shown.kind = "value"
    /\ ~shown.nan
    /\ shown.from # shown.to
    /\ LET input == [nan |-> FALSE, n |-> shown.num * 10]
           back  == IF app = "main"
                    THEN MainConvertCurrencyAmount(customRates, input, shown.to, shown.from)
                    ELSE PlaidConvertCurrencyAmount(customRates, input, shown.to, shown.from)
       IN  shown' = WithRaw([back EXCEPT !.op = "roundTrip"], shown.amount)
    /\ UNCHANGED <<pageVars, navVars, resolved, rateVars>>

\* updateCurrencyPair(pairNumber), the selects holding `from` and `to`
UpdateCurrencyPair(from, to) ==
    /\ shown.op = "none"
    /\ LET op  == "updateCurrencyPair"
           one == <<1, 1>>
       IN  shown' =
             IF app = "main"
             THEN IF from = to
                  THEN \* '1.0000'
                       Display(op, FALSE, one, from, to, "value", "", 4, 10000, FALSE)
                  ELSE IF ~Truthy(customRates, from) \/ ~Truthy(customRates, to)
                  THEN Display(op, FALSE, one, from, to, "na", "", 0, 0, FALSE)
                  ELSE Display(op, FALSE, one, from, to, "value", "", 4,
                               ToFixed(PivotThroughUSD(customRates, one, from, to), 4), TRUE)
             ELSE IF Truthy(customRates, from) /\ Truthy(customRates, to)
                  THEN Display(op, FALSE, one, from, to, "value", "", 4,
                               ToFixed(PlaidPairRate(customRates, from, to), 4), TRUE)
                  ELSE Display(op, FALSE, one, from, to, "na", "", 0, 0, FALSE)
    /\ UNCHANGED <<pageVars, navVars, resolved, rateVars>>

\* the symbol convertAccountCurrency puts before the number
AccountSymbol(targetCurrency) ==
    CASE targetCurrency = "UAH" -> "hryvnia"
      [] targetCurrency = "EUR" -> "euro"
      [] OTHER                  -> "dollar"

\* the symbol convertCurrency puts before the number
RegionSymbol(targetCurrency) ==
    CASE targetCurrency = "UAH" -> "hryvnia"
      [] targetCurrency = "EUR" -> "euro"
      [] targetCurrency = "RUB" -> "rouble"
      [] OTHER                  -> "dollar"

\* convertAccountCurrency(regionId, bankId, accountId, targetCurrency) for an
\* account displayRegionAssets has rendered: the balance is read back from
\* the text '<symbol><balance.toFixed(2)> <currency>', the original currency
\* is the code in that text; targetCurrency '' restores the balance text
ConvertAccountCurrency(accountBalance, accountCurrency, targetCurrency) ==
    /\ shown.op = "none"
    /\ app = "main"
    /\ LET op      == "convertAccountCurrency"
           text    == ToFixed(Rat(accountBalance, 1000), 2)
           balance == Rat(text, 100)
       IN  shown' = WithRaw(
             IF targetCurrency = ""
             THEN Display(op, FALSE, balance, accountCurrency, targetCurrency,
                          "original", "", 2, text, FALSE)
             ELSE IF ~Truthy(customRates, accountCurrency)
                     \/ ~Truthy(customRates, targetCurrency)
             THEN Display(op, FALSE, balance, accountCurrency, targetCurrency,
                          "na", "", 0, 0, FALSE)
             ELSE Display(op, FALSE, balance, accountCurrency, targetCurrency,
                          "value", AccountSymbol(targetCurrency), 2,
                          ToFixed(PivotThroughUSD(customRates, balance, accountCurrency,
                                                  targetCurrency), 2),
                          TRUE),
             \* account.balance, before displayRegionAssets formats it
             Rat(accountBalance, 1000))
    /\ UNCHANGED <<pageVars, navVars, resolved, rateVars>>

Regions == {"canada", "ukraine", "usa"}

\* convertCurrency: the currency of a region
SourceCurrency(regionId) ==
    CASE regionId = "canada"  -> "CAD"
      [] regionId = "ukraine" -> "UAH"
      [] OTHER                -> "USD"

\* convertCurrency(regionId, targetCurrency) on a page that has the elements
\* '<regionId>-balance' and '<regionId>-converted'; regionBalance is the
\* number parseFloat reads off the balance text
ConvertCurrency(regionBalance, regionId, targetCurrency) ==
    /\ shown.op = "none"
    /\ app = "main"
    /\ LET op      == "convertCurrency"
           balance == Rat(regionBalance, 1000)
           source  == SourceCurrency(regionId)
       IN  shown' =
             IF ~Truthy(customRates, source) \/ ~Truthy(customRates, targetCurrency)
             THEN Display(op, FALSE, balance, source, targetCurrency, "na", "", 0, 0, FALSE)
             ELSE Display(op, FALSE, balance, source, targetCurrency,
                          "value", RegionSymbol(targetCurrency), 2,
                          ToFixed(PivotThroughUSD(customRates, balance, source,
                                                  targetCurrency), 2),
                          TRUE)
    /\ UNCHANGED <<pageVars, navVars, resolved, rateVars>>

\* either page with a table it reaches, no call under way
ConvertInit ==
    /\ app \in {"main", "plaid"}
    /\ customRates \in RateTables(app)
    /\ issued = 0
    /\ pending = {}
    /\ newest = 0
    /\ refreshing = 0
    /\ rateLast = [op |-> "none", kind |-> "none", complete |-> FALSE, v |-> 0, settled |-> "none"]
    /\ shown = NoDisplay

ConvertNext ==
    \/ \E input \in AmountInputs, from \in CurrencyCodes, to \in CurrencyCodes :
          ConvertCurrencyAmount(input, from, to)
    \/ ConvertBack
    \/ \E from \in CurrencyCodes, to \in CurrencyCodes : UpdateCurrencyPair(from, to)
    \/ \E accountBalance \in Amounts, accountCurrency \in CurrencyCodes,
          targetCurrency \in CurrencyCodes \cup {""} :
          ConvertAccountCurrency(accountBalance, accountCurrency, targetCurrency)
    \/ \E regionBalance \in Amounts, regionId \in Regions, targetCurrency \in CurrencyCodes :
          ConvertCurrency(regionBalance, regionId, targetCurrency)

\* the converters when they are not what is being exercised
ConvertIdle == shown = NoDisplay

(***************************************************************************)
(* The dashboard of the main page: apiCall, loadDashboard, loadPlaidUsage, *)
(* loadAssets.                                                             *)
(***************************************************************************)
MaxAssetCalls == 3

\* what a request made through apiCall ends with: fetch rejects; the status
\* is not ok; the content type is not JSON; the body does not parse; or the
\* body is null, an object with an error field, or any other JSON value
ApiOutcomes == {"reject", "status", "notjson", "badjson", "null", "errorObject", "object"}

\* the exception the try block of apiCall ends with, "none" when it returns
\* the parsed body
ApiThrown(outcome) ==
    IF outcome \in {"reject", "status", "notjson", "badjson"} THEN outcome ELSE "none"

\* what the promise of apiCall resolves to: { error: error.message } from
\* the catch block, else the parsed body
ApiResult(outcome) ==
    IF ApiThrown(outcome) # "none" THEN "errorObject" ELSE outcome

\* how the promise of apiCall settles: the catch block spans the body and
\* returns an object
ApiCallSettles(outcome) ==
    IF ApiThrown(outcome) = "none" THEN "resolved"
    ELSE IF ApiThrown(outcome) \in {"reject", "status", "notjson", "badjson"}
         THEN "resolved" ELSE "rejected"

\* the requests of loadDashboard's Promise.all
ListEndpoints == {"/api/banks", "/accounts", "/transactions"}

\* what the usage request of loadPlaidUsage ends with (the status is not
\* looked at): fetch rejects, the body does not parse, or it is null, an
\* object with an error field, or the usage counts
UsageOutcomes == {"reject", "notjson", "null", "errorObject", "object"}

\* the exception the try block of loadPlaidUsage ends with: the rejection,
\* the SyntaxError of json(), the TypeError of reading null.error
UsageThrown(outcome) ==
    IF outcome \in {"reject", "notjson", "null"} THEN outcome ELSE "none"

\* loadPlaidUsage without its try/catch
PlaidUsageSettlesUncaught(outcome) ==
    IF UsageThrown(outcome) = "none" THEN "resolved" ELSE "rejected"

\* how the promise of loadPlaidUsage settles: the catch block sets the
\* default counts through updatePlaidCounter, which checks its elements
PlaidUsageSettles(outcome) ==
    IF UsageThrown(outcome) = "none" THEN "resolved"
    ELSE IF UsageThrown(outcome) \in {"reject", "notjson", "null"}
         THEN "resolved" ELSE "rejected"

\* what the status request of loadAssets ends with: fetch rejects; the
\* status is not ok; the body does not parse; the list is null or empty; a
\* list of banks; a list with an entry that has no name
AssetOutcomes == {"reject", "status", "notjson", "empty", "banks", "badbank"}

\* how a run of loadAssets leaves its try block
AssetExit(outcome) ==
    CASE outcome \in {"status", "empty"} -> "return"
      [] outcome \in {"reject", "notjson", "badbank"} -> "exception"
      [] OTHER -> "complete"

\* loadAssets that resets the flag at the end of the try block only
FlagAfterExitAtEndOnly(exit) == exit # "complete"

\* assetsLoading after a run has left: finally { assetsLoading = false }
FlagAfterExit(exit) ==
    IF exit \in {"return", "exception", "complete"} THEN FALSE ELSE TRUE

NoAssetsStep == [op |-> "none", busy |-> FALSE, fetched |-> FALSE, exit |-> "none"]

\* loadAssets() called by `caller`, up to its return or its await fetch(...)
LoadAssets(caller) ==
    /\ assetCalls' = assetCalls + 1
    /\ IF assetsLoading
       THEN /\ assetsLast' = [op |-> "call", busy |-> TRUE, fetched |-> FALSE, exit |-> "none"]
            /\ UNCHANGED <<assetsLoading, assetRuns>>
       ELSE /\ assetsLoading' = TRUE
            /\ assetRuns' = assetRuns \cup {[id |-> assetCalls + 1, caller |-> caller]}
            /\ assetsLast' = [op |-> "call", busy |-> FALSE, fetched |-> TRUE, exit |-> "none"]

\* the order in which loadDashboard starts its follow-up loads and sees
\* them settle
DashOrder ==
    <<"usage:start", "usage:settled", "rates:start", "rates:settled",
      "assets:start", "assets:settled">>

\* one of the three apiCall promises settles; when all have, loadDashboard
\* resumes and calls loadPlaidUsage, which runs to its await fetch(...)
ListSettles(endpoint, outcome) ==
    /\ dashPc = "lists"
    /\ endpoint \in listsPending
    /\ listsPending' = listsPending \ {endpoint}
    /\ dashFailed' = IF ApiResult(outcome) = "errorObject"
                     THEN dashFailed \cup {"lists"} ELSE dashFailed
    /\ IF ApiCallSettles(outcome) = "rejected"
       THEN dashPc' = "caught" /\ UNCHANGED dashLog
       ELSE IF listsPending = {endpoint}
            THEN dashPc' = "usage" /\ dashLog' = Append(dashLog, "usage:start")
            ELSE UNCHANGED <<dashPc, dashLog>>
    /\ UNCHANGED <<dashReq, assetsLoading, assetRuns, assetCalls, assetsLast>>
    /\ UNCHANGED <<navVars, resolved, rateVars, shown, buttonVars, formVars>>

\* the usage request settles: loadPlaidUsage ends, loadDashboard resumes
\* and calls loadExchangeRates, which runs to its await fetch(...)
UsageSettles(outcome) ==
    /\ dashPc = "usage"
    /\ dashFailed' = IF outcome # "object" THEN dashFailed \cup {"usage"} ELSE dashFailed
    /\ IF PlaidUsageSettles(outcome) = "rejected"
       THEN /\ dashPc' = "caught"
            /\ dashLog' = Append(dashLog, "usage:settled")
            /\ UNCHANGED <<dashReq, rateVars>>
       ELSE /\ IssueLoad(FALSE)
            /\ dashReq' = issued + 1
            /\ dashPc' = "rates"
            /\ dashLog' = dashLog \o <<"usage:settled", "rates:start">>
    /\ UNCHANGED <<listsPending, assetsLoading, assetRuns, assetCalls, assetsLast>>
    /\ UNCHANGED <<navVars, resolved, shown, buttonVars, formVars>>

\* the rate request of loadDashboard settles: loadExchangeRates ends,
\* loadDashboard resumes and calls loadAssets; if that returns at its guard
\* loadDashboard is through
DashRatesSettle(resp) ==
    /\ dashPc = "rates"
    /\ ApplyResponse(dashReq, resp)
    /\ dashReq' = 0
    /\ dashFailed' = IF Kind(resp) # "rates" THEN dashFailed \cup {"rates"} ELSE dashFailed
    /\ IF Settles(app, resp) = "rejected"
       THEN /\ dashPc' = "caught"
            /\ dashLog' = Append(dashLog, "rates:settled")
            /\ UNCHANGED <<assetsLoading, assetRuns, assetCalls, assetsLast>>
       ELSE /\ LoadAssets("loadDashboard")
            /\ dashPc' = IF assetsLoading THEN "done" ELSE "assets"
            /\ dashLog' = dashLog \o (IF assetsLoading
                                      THEN <<"rates:settled", "assets:start", "assets:settled">>
                                      ELSE <<"rates:settled", "assets:start">>)
    /\ UNCHANGED listsPending
    /\ UNCHANGED <<navVars, resolved, shown, buttonVars, formVars>>

\* loadAssets() called from elsewhere than loadDashboard
CallLoadAssets ==
    /\ assetCalls < MaxAssetCalls
    /\ LoadAssets("other")
    /\ UNCHANGED <<dashPc, listsPending, dashReq, dashLog, dashFailed>>
    /\ UNCHANGED <<navVars, resolved, rateVars, shown, buttonVars, formVars>>

\* the status request of a run settles and the run goes to its end
AssetsSettle(run, outcome) ==
    /\ run \in assetRuns
    /\ assetRuns' = assetRuns \ {run}
    /\ assetsLoading' = FlagAfterExit(AssetExit(outcome))
    /\ assetsLast' = [op |-> "exit", busy |-> FALSE, fetched |-> TRUE,
                      exit |-> AssetExit(outcome)]
    /\ IF run.caller = "loadDashboard"
       THEN dashPc' = "done" /\ dashLog' = Append(dashLog, "assets:settled")
       ELSE UNCHANGED <<dashPc, dashLog>>
    /\ UNCHANGED <<listsPending, dashReq, dashFailed, assetCalls>>
    /\ UNCHANGED <<navVars, resolved, rateVars, shown, buttonVars, formVars>>

\* DOMContentLoaded has called loadDashboard(), which is at its Promise.all
DashInit ==
    /\ dashPc = "lists"
    /\ listsPending = ListEndpoints
    /\ dashReq = 0
    /\ dashLog = << >>
    /\ dashFailed = {}
    /\ assetsLoading = FALSE
    /\ assetRuns = {}
    /\ assetCalls = 0
    /\ assetsLast = NoAssetsStep

AssetRunsOf == [id : 1..(MaxAssetCalls + 1), caller : {"loadDashboard", "other"}]

DashNext ==
    \/ \E endpoint \in ListEndpoints, outcome \in ApiOutcomes : ListSettles(endpoint, outcome)
    \/ \E outcome \in UsageOutcomes : UsageSettles(outcome)
    \/ \E resp \in Responses : DashRatesSettle(resp)
    \/ CallLoadAssets
    \/ \E run \in AssetRunsOf, outcome \in AssetOutcomes : AssetsSettle(run, outcome)

\* the dashboard when it is not what is being exercised
DashIdle ==
    /\ dashPc = "none"
    /\ listsPending = {}
    /\ dashReq = 0
    /\ dashLog = << >>
    /\ dashFailed = {}
    /\ assetsLoading = FALSE
    /\ assetRuns = {}
    /\ assetCalls = 0
    /\ assetsLast = NoAssetsStep

\* the refresh buttons before they are clicked
ButtonsIdle ==
    /\ plaidButton = [disabled |-> FALSE, label |-> LabelMarkup, counted |-> FALSE]
    /\ plaidStage = "idle"

NoFormStep ==
    [op |-> "none", form |-> "", result |-> "none", alerted |-> "none", reset |-> FALSE,
     reloaded |-> "none", threw |-> FALSE]

\* the forms when none is being submitted
FormsIdle ==
    /\ submits = [form \in {"bankForm", "accountForm", "transactionForm"} |-> 0]
    /\ formLast = NoFormStep

(***************************************************************************)
(* The refresh buttons: refreshRates (main page), refreshPlaidCounter of   *)
(* either page.                                                            *)
(***************************************************************************)
\* what the refresh request of refreshPlaidCounter ends with: fetch
\* rejects; the status is not ok (the body then reports the failure); the
\* body does not parse; it is null; it is an object without a truthy
\* success field; or it reports success
RefreshOutcomes == {"reject", "status", "notjson", "null", "failure", "success"}

\* refreshPlaidCounter of the main page: the label the request leaves on the
\* button for the next two seconds
MainRefreshLabel(outcome) ==
    IF outcome = "success" THEN LabelDone ELSE LabelError

\* refreshPlaidCounter of the Plaid page: the try block gets as far as
\* await loadPlaidUsage()
PlaidRefreshReachesUsage(outcome) ==
    outcome \in {"null", "failure", "success"}

\* refreshPlaidCounter up to its await fetch(...). A disabled button
\* receives no click.
RefreshPlaidCounter ==
    /\ ~plaidButton.disabled
    /\ plaidStage = "idle"
    /\ plaidButton' = [disabled |-> TRUE, label |-> LabelBusy, counted |-> FALSE]
    /\ plaidStage' = "refresh"
    /\ UNCHANGED <<navVars, resolved, rateVars, shown, dashVars, formVars>>

\* the refresh request settles. Main page: the button gets its result
\* label and setTimeout(..., 2000) is set. Plaid page: loadPlaidUsage() is
\* called and awaited, or the error is shown and finally restores the button.
RefreshSettles(outcome) ==
    /\ plaidStage = "refresh"
    /\ IF app = "main"
       THEN /\ plaidButton' = [disabled |-> TRUE, label |-> MainRefreshLabel(outcome),
                               counted |-> outcome = "success"]
            /\ plaidStage' = "timer"
       ELSE IF PlaidRefreshReachesUsage(outcome)
            THEN /\ plaidStage' = "usage"
                 /\ UNCHANGED plaidButton
            ELSE /\ plaidButton' = [disabled |-> FALSE, label |-> LabelRefresh,
                                    counted |-> FALSE]
                 /\ plaidStage' = "idle"
    /\ UNCHANGED <<navVars, resolved, rateVars, shown, dashVars, formVars>>

\* apiCall of the Plaid page throws its errors on; a body that is not
\* declared as JSON it returns as text
PlaidApiThrown(outcome) ==
    IF outcome \in {"reject", "status", "badjson"} THEN outcome ELSE "none"

\* Plaid page: the usage request of the awaited loadPlaidUsage() settles.
\* loadPlaidUsage catches what apiCall throws and the TypeError of
\* updatePlaidCounter(null); finally restores the button
RefreshUsageSettles(outcome) ==
    /\ plaidStage = "usage"
    /\ plaidButton' = [disabled |-> FALSE, label |-> LabelRefresh,
                       counted |-> PlaidApiThrown(outcome) = "none" /\ outcome # "null"]
    /\ plaidStage' = "idle"
    /\ UNCHANGED <<navVars, resolved, rateVars, shown, dashVars, formVars>>

\* main page: the two seconds are over
RefreshTimer ==
    /\ plaidStage = "timer"
    /\ plaidButton' = [plaidButton EXCEPT !.disabled = FALSE, !.label = LabelRefresh]
    /\ plaidStage' = "idle"
    /\ UNCHANGED <<navVars, resolved, rateVars, shown, dashVars, formVars>>

ButtonsNext ==
    \/ \E byButton \in BOOLEAN : StartLoad(byButton)
    \/ \E req \in 1..MaxRequests, resp \in Responses : FinishLoad(req, resp)
    \/ RefreshPlaidCounter
    \/ \E outcome \in RefreshOutcomes : RefreshSettles(outcome)
    \/ \E outcome \in ApiOutcomes : RefreshUsageSettles(outcome)
    \/ RefreshTimer

(***************************************************************************)
(* The forms of the main page: initializeFormHandlers.                     *)
(***************************************************************************)
MaxSubmits == 2

Forms == {"bankForm", "accountForm", "transactionForm"}

\* the list a submit handler reloads after a success
ListOf(form) ==
    CASE form = "bankForm" -> "loadBanks"
      [] form = "accountForm" -> "loadAccounts"
      [] form = "transactionForm" -> "loadTransactions"

\* the submit handler of `form` up to its await apiCall(...)
Submit(form) ==
    /\ submits[form] < MaxSubmits
    /\ submits' = [submits EXCEPT ![form] = @ + 1]
    /\ formLast' = [NoFormStep EXCEPT !.op = "submit", !.form = form]
    /\ UNCHANGED <<navVars, resolved, rateVars, shown, dashVars, buttonVars>>

\* the request of a submit handler of `form` settles and the handler runs
\* to its end: it reads result.error, which throws for null
FormSettles(form, outcome) ==
    /\ submits[form] > 0
    /\ submits' = [submits EXCEPT ![form] = @ - 1]
    /\ LET result == ApiResult(outcome)
           threw  == ApiCallSettles(outcome) = "rejected" \/ result = "null"
           failed == ~threw /\ result = "errorObject"
       IN  formLast' = [op |-> "settled", form |-> form,
                        result |-> IF ApiCallSettles(outcome) = "rejected"
                                   THEN "none" ELSE result,
                        alerted |-> IF threw THEN "none"
                                    ELSE IF failed THEN "error" ELSE "success",
                        reset |-> ~threw /\ ~failed,
                        reloaded |-> IF threw \/ failed THEN "none" ELSE ListOf(form),
                        threw |-> threw]
    /\ UNCHANGED <<navVars, resolved, rateVars, shown, dashVars, buttonVars>>

FormsInit ==
    /\ submits = [form \in Forms |-> 0]
    /\ formLast = NoFormStep

FormsNext ==
    \/ \E form \in Forms : Submit(form)
    \/ \E form \in Forms, outcome \in ApiOutcomes : FormSettles(form, outcome)

(***************************************************************************)
(* Specifications.                                                         *)
(***************************************************************************)
\* the dashboard, the refresh buttons and the forms at rest
PageIdle == DashIdle /\ ButtonsIdle /\ FormsIdle

\* the router, the history and the panels of the main page
InitNav == NavInit /\ RouteIdle /\ RatesIdle /\ ConvertIdle /\ PageIdle

SpecNav == InitNav /\ [][NavNext]_vars

\* handleRoute and routeMap as functions of their arguments
InitRoute == NavIdle /\ RouteIdle /\ RatesIdle /\ ConvertIdle /\ PageIdle

SpecRoute == InitRoute /\ [][RouteNext]_vars

\* the rate table of either page
InitRates == NavIdle /\ RouteIdle /\ RatesInit /\ ConvertIdle /\ PageIdle

SpecRates == InitRates /\ [][RatesNext]_vars

\* the converters of either page, on the tables the page reaches
InitConvert == NavIdle /\ RouteIdle /\ ConvertInit /\ PageIdle

SpecConvert == InitConvert /\ [][ConvertNext]_vars

\* loadDashboard and loadAssets of the main page
InitDash ==
    NavIdle /\ RouteIdle /\ RatesIdle /\ ConvertIdle /\ DashInit /\ ButtonsIdle /\ FormsIdle

SpecDash == InitDash /\ [][DashNext]_vars

\* the refresh buttons of either page
InitButtons ==
    NavIdle /\ RouteIdle /\ RatesInit /\ ConvertIdle /\ DashIdle /\ ButtonsIdle /\ FormsIdle

SpecButtons == InitButtons /\ [][ButtonsNext]_vars

\* the forms of the main page
InitForms ==
    NavIdle /\ RouteIdle /\ RatesIdle /\ ConvertIdle /\ DashIdle /\ ButtonsIdle /\ FormsInit

SpecForms == InitForms /\ [][FormsNext]_vars

\* the two pages together
Init == NavInit /\ RouteIdle /\ RatesInit /\ ConvertIdle /\ PageIdle

Next == NavNext \/ RatesNext \/ ConvertNext \/ DashNext \/ ButtonsNext \/ FormsNext

Spec == Init /\ [][Next]_vars

(***************************************************************************)
(* Properties of the rate table (SpecRates).                               *)
(*                                                                         *)
(* A step in which a call of loadExchangeRates finishes is a step that     *)
(* takes a call out of `pending`; rateLast' then describes its response.   *)
(***************************************************************************)
FailKinds == {"reject", "status", "notjson", "norates"}

\* C1: when the table holds the rates of the response of a call, and the
\* response (with all four codes) of a call issued before that one arrives,
\* it does not overwrite the table: the table keeps the rates of the
\* later-issued call.
C1_SupersededResponseIsDiscarded ==
    [][\A req \in pending \ pending' :
          (/\ req < newest
           /\ rateLast.op = "finish" /\ rateLast.kind = "rates" /\ rateLast.complete
           /\ \A c \in NonBase : customRates[c] = rateLast.v
           /\ rateLast'.kind = "rates" /\ rateLast'.complete)
              => customRates' = customRates]_vars

\* C2: a call of loadExchangeRates that fails (fetch rejects, the status is
\* not ok, the body is not JSON, the body has no rates) leaves every entry
\* of customRates as it was.
C2_FailedLoadKeepsRates ==
    [][\A req \in pending \ pending' :
          rateLast'.kind \in FailKinds => customRates' = customRates]_vars

\* C2, witness: a call has failed on a table that is no longer the initial one
C2_Witness ==
    /\ rateLast.op = "finish"
    /\ rateLast.kind \in FailKinds
    /\ customRates # InitialRates

\* C3: a response with rates that lacks one of CAD, EUR, UAH, RUB is a
\* failed refresh: nothing of it is written into customRates.
C3_IncompleteResponseIsFailure ==
    [][\A req \in pending \ pending' :
          (rateLast'.kind = "rates" /\ ~rateLast'.complete)
              => customRates' = customRates]_vars

\* C4: after a refresh that succeeded, every non-base rate of customRates
\* is the rate of that one response (no rate is kept from the older table).
C4_SuccessReplacesWholeTable ==
    [][\A req \in pending \ pending' :
          (rateLast'.kind = "rates" /\ rateLast'.v # 0)
              => \A c \in NonBase : customRates'[c] = rateLast'.v]_vars

\* C21: whatever the fetch of a loadExchangeRates call ends with (rejection,
\* a status that is not ok, a body that is not JSON, JSON without rates),
\* the promise the call returned resolves, and the refresh button of the
\* call is enabled again.
C21_LoadNeverRaises ==
    rateLast.op = "finish"
        => (rateLast.settled = "resolved" /\ refreshing \notin (1..issued) \ pending)

\* C21, witness: on the Plaid page a call has ended on a body without rates
C21_Witness ==
    /\ rateLast.op = "finish"
    /\ rateLast.kind = "norates"
    /\ app = "plaid"
    /\ rateLast.settled = "resolved"

\* C15: in every reachable state every rate of customRates is strictly
\* positive, whatever responses loadExchangeRates got and whatever values
\* updateCustomRate was called with.
C15_RatesStrictlyPositive ==
    \A c \in Currencies : customRates[c] > 0

\* C16: in every reachable state customRates.USD is exactly 1: no response
\* and no updateCustomRate call, whatever its currency pair and value,
\* changes it.
C16_BaseRateIsOne ==
    Rat(customRates[BaseCurrency], 100) = <<1, 1>>

\* C16, witness: a refresh has written the table and after it
\* updateCustomRate has assigned a rate
C16_Witness ==
    /\ rateLast.op = "update"
    /\ newest > 0
    /\ \E c \in NonBase : customRates[c] \notin {InitialRates[c]} \cup {0}
    /\ \E c \in NonBase : customRates[c] = 0

\* C17: a step taken while a call of loadExchangeRates is suspended (the
\* call is waiting for its response before the step and after it) leaves
\* customRates as it is.
C17_NoMutationWhileSuspended ==
    [][pending \cap pending' # {} => customRates' = customRates]_vars

(***************************************************************************)
(* Properties of the router and the panels (SpecNav).                      *)
(***************************************************************************)
\* C5: the showTab that handles a history change (popstate -> handleRoute
\* -> deferred showTab) does not call history.pushState, and the history has
\* as many entries after it as before.
C5_HistoryChangePushesNothing ==
    (navLast.op = "timer" /\ navLast.origin = "popstate")
        => (~navLast.pushed /\ Len(entries) = navLast.lenBefore)

\* C6: in every reachable state exactly one panel is active, and it is a
\* registered view.
C6_ExactlyOneActivePanel ==
    /\ Cardinality(activePanels) = 1
    /\ activePanels \subseteq Panels

\* C7: showTab called with a name that is no known view does not throw and
\* activates the default view 'dashboard'.
C7_UnknownViewFallsBackToDefault ==
    (navLast.op \in {"call", "timer", "goHomeNoURL"} /\ navLast.tab \notin Panels)
        => (~navLast.threw /\ activePanels = {DefaultTab})

ShowTabOps == {"call", "timer", "goHomeNoURL"}

\* C18: a showTab of a routed non-default view made while the current URL
\* is already the path of that view adds no history entry (so two
\* consecutive showTab('banks') add at most one '/banks' entry).
C18_NoPushWhenAlreadyAtPath ==
    [][(/\ navLast'.op \in ShowTabOps
        /\ ~navLast'.threw
        /\ navLast'.tab \in RoutedViews \ {DefaultTab}
        /\ entries[idx] = RouteMap(basePath)[navLast'.tab])
           => (entries' = entries /\ idx' = idx)]_vars

\* C19: a showTab of 'dashboard', or of a view that has no route
\* ('accounts', 'reports'), leaves the history entries and the current URL
\* as they are: only a routed non-default view changes the history.
C19_OnlyRoutedNonDefaultViewsPush ==
    [][(/\ navLast'.op \in ShowTabOps
        /\ navLast'.tab \notin RoutedViews \ {DefaultTab})
           => (entries' = entries /\ idx' = idx)]_vars

\* C19, witness: 'accounts' has been activated by a call on a page whose
\* history holds more than the start entry and whose URL is not '/'
C19_Witness ==
    /\ navLast.op = "call"
    /\ navLast.tab = "accounts"
    /\ activePanels = {"accounts"}
    /\ Len(entries) > 1
    /\ entries[idx] = "/banks"

\* the data-refresh action showTab has for a view ('dashboard' and 'advisor'
\* have none)
RefreshOf ==
    [v \in {"banks", "accounts", "transactions", "reports"} |->
        CASE v = "banks"        -> "loadBanksForManagement"
          [] v = "accounts"     -> "loadAccounts"
          [] v = "transactions" -> "loadTransactions"
          [] v = "reports"      -> "loadReports"]

C24_StartupResolvesThePath ==
    \A v \in RoutedViews :
        (/\ entries[1] = RouteMap(basePath)[v]
         /\ \/ navLast.op = "timer" /\ navLast.origin = "load"
            \/ navLast.op = "unload")
           => activePanels = {v}

\* C25: on the main page, when no deferred showTab is waiting, the active
\* panel is the view the current URL path resolves to.
C25_UrlAndPanelAgree ==
    (app = "main" /\ timers = << >>)
        => activePanels = {HandleRoute(basePath, entries[idx])}

(***************************************************************************)
(* Properties of handleRoute and routeMap (SpecRoute).                     *)
(***************************************************************************)
\* C8: a registered path resolved by handleRoute and mapped back by routeMap
\* is the same path; a routed view mapped to its path by routeMap and
\* resolved by handleRoute is the same view.
C8_RoutesRoundTrip ==
    /\ (resolved.op = "path" /\ resolved.path \in RegisteredPaths(resolved.base))
          => /\ resolved.tab \in DOMAIN RouteMap(resolved.base)
             /\ RouteMap(resolved.base)[resolved.tab] = resolved.path
    /\ resolved.op = "view" => resolved.tab = resolved.view

\* C8, witness: a registered path of a non-default view under the GitHub
\* Pages base path has been resolved
C8_Witness ==
    /\ resolved.op = "path"
    /\ resolved.base = GitHubPagesBase
    /\ resolved.path = GitHubPagesBase \o "/transactions"
    /\ resolved.tab = "transactions"

\* true when `path` goes on from a registered route of a non-default view
ExtendsNonDefaultRoute(base, path) ==
    \E i \in 1..Len(Routes(base)) :
        /\ Routes(base)[i].tab # DefaultTab
        /\ StartsWith(path, Routes(base)[i].route)

\* C9: a path that is no registered route and does not go on from a
\* registered non-default route resolves to 'dashboard', with either base path.
C9_UnknownPathResolvesToDefault ==
    (/\ resolved.op = "path"
     /\ resolved.path \notin RegisteredPaths(resolved.base)
     /\ ~ExtendsNonDefaultRoute(resolved.base, resolved.path))
        => resolved.tab = DefaultTab

\* C9, witness: a path that no route is a prefix of (the fallback after the
\* loop) has been resolved
C9_Witness ==
    /\ resolved.op = "path"
    /\ resolved.base = GitHubPagesBase
    /\ resolved.path = "/unknown"
    /\ resolved.tab = DefaultTab

\* the resolution C10 states: the exact route, else the longest registered
\* route that is a prefix of the path, else the default view
LongestPrefixResolution(base, path) ==
    LET R      == Routes(base)
        exact  == {i \in 1..Len(R) : R[i].route = path}
        prefix == {i \in 1..Len(R) : StartsWith(path, R[i].route)}
    IN  IF exact # {} THEN R[CHOOSE i \in exact : TRUE].tab
        ELSE IF prefix # {}
             THEN R[CHOOSE i \in prefix :
                        \A j \in prefix : Len(R[j].route) <= Len(R[i].route)].tab
             ELSE DefaultTab

\* C10: handleRoute resolves a path to the exact route's view, else to the
\* view of the longest registered route that is a prefix of it ('/banks/123'
\* gives 'banks'), else to the default view.
C10_LongestPrefixWins ==
    resolved.op = "path"
        => resolved.tab = LongestPrefixResolution(resolved.base, resolved.path)

\* C11: a router constructed on a page served under base path B, for B the
\* root, '/app' and '/budget-manager-cloud', resolves the start path
\* B + '/banks' to 'banks' and B + '/unknown' to 'dashboard'.
C11_RouterWorksUnderAnyBasePath ==
    resolved.op = "load"
        => \A b \in DeploymentBases :
              /\ resolved.path = b \o "/banks" => resolved.tab = "banks"
              /\ resolved.path = b \o "/unknown" => resolved.tab = DefaultTab

(***************************************************************************)
(* Properties of the converters (SpecConvert).                             *)
(***************************************************************************)
\* C12: convertCurrencyAmount from a currency of the table to the same
\* currency shows the amount itself (formatted to two decimals), for every
\* amount, zero and negative amounts included: not a message, not another
\* value.
C12_SameCurrencyYieldsTheAmount ==
    (/\ shown.op = "convertCurrencyAmount"
     /\ ~shown.nan
     /\ shown.from = shown.to
     /\ shown.from \in Currencies)
        => (shown.kind = "value" /\ shown.num = ToFixed(shown.amount, 2))

ConvertOps ==
    {"convertCurrencyAmount", "convertAccountCurrency", "convertCurrency",
     "updateCurrencyPair"}

\* C13: for two different currencies that both have a rate, every routine
\* displays amount / rate[from] * rate[to] computed with the rates of the
\* current table (updateCurrencyPair for the amount 1, to four decimals).
C13_PivotThroughBaseCurrency ==
    (/\ shown.op \in ConvertOps
     /\ ~shown.nan
     /\ shown.from # shown.to
     /\ Truthy(customRates, shown.from)
     /\ Truthy(customRates, shown.to))
        => /\ shown.kind = "value"
           /\ shown.num =
                ToFixed(RatMul(RatDiv(shown.amount, Rat(customRates[shown.from], 100)),
                               Rat(customRates[shown.to], 100)),
                        IF shown.op = "updateCurrencyPair" THEN 4 ELSE 2)

\* C14: when the source or the target currency of a conversion between two
\* currencies has no rate (no entry in the table, or the rate 0), the routine
\* displays 'N/A' or 'Курс не найден' and has not divided.
C14_NoRateIsNotConvertible ==
    (/\ shown.op \in ConvertOps
     /\ ~shown.nan
     /\ shown.from # shown.to
     /\ shown.to # ""
     /\ (~Truthy(customRates, shown.from) \/ ~Truthy(customRates, shown.to)))
        => (shown.kind \in {"na", "notfound"} /\ ~shown.divided)

C23_RoundTrip ==
    (/\ shown.op = "roundTrip"
     /\ Truthy(customRates, shown.from)
     /\ Truthy(customRates, shown.to))
        => (shown.kind = "value" /\ shown.num = ToFixed(shown.raw, 2))

(***************************************************************************)
(* Properties of loadDashboard and loadAssets (SpecDash).                  *)
(***************************************************************************)
\* C26: at most one run of loadAssets is past its guard: a call made while
\* a run is in flight returns without fetching, and every exit of a run
\* (early return, exception, completion) leaves assetsLoading false, so the
\* flag is set exactly while a run is in flight.
C26_OneLoadAssetsRun ==
    /\ Cardinality(assetRuns) <= 1
    /\ assetsLoading <=> assetRuns # {}
    /\ (assetsLast.op = "call" /\ assetsLast.busy) => ~assetsLast.fetched
    /\ assetsLast.op = "exit" => ~assetsLoading

\* a third call finds the second one in flight, the first having left by an
\* early return or an exception
C26_Witness ==
    /\ assetsLast.op = "call"
    /\ assetsLast.busy
    /\ assetCalls = 3
    /\ \E run \in assetRuns : run.id = 2

IsPrefix(s, t) == Len(s) <= Len(t) /\ s = SubSeq(t, 1, Len(s))

Logged(event) == \E i \in 1..Len(dashLog) : dashLog[i] = event

\* C27: loadDashboard starts loadPlaidUsage, loadExchangeRates and
\* loadAssets in that order, each when the one before has settled, and
\* whatever failed, it never ends in its catch block: once the rate load
\* has settled, loadAssets has been started.
C27_DashboardSequence ==
    /\ IsPrefix(dashLog, DashOrder)
    /\ dashPc # "caught"
    /\ Logged("usage:settled") => Logged("rates:start")
    /\ Logged("rates:settled") => Logged("assets:start")
    /\ dashPc \in {"assets", "done"} <=> Logged("assets:start")

\* the list requests, the usage request and the rate request have all
\* failed, and loadAssets has been started
C27_Witness ==
    /\ dashFailed = {"lists", "usage", "rates"}
    /\ dashPc = "assets"
    /\ Logged("assets:start")

(***************************************************************************)
(* Properties of the refresh buttons (SpecButtons) and of the forms        *)
(* (SpecForms).                                                            *)
(***************************************************************************)
\* C28: each refresh button is disabled exactly while the request of its
\* call is in progress, and a button that has been used and is enabled
\* carries the label 'Обновить'.
C28_ButtonsFollowTheRequest ==
    /\ app = "main" => (refreshing # 0 <=> refreshing \in pending)
    /\ plaidButton.disabled <=> plaidStage \in {"refresh", "usage"}
    /\ ~plaidButton.disabled => plaidButton.label \in {LabelMarkup, LabelRefresh}

\* C29: a submit handler never sees apiCall reject; for a result with an
\* error field it shows the error and neither resets the form nor reloads
\* the list; for any other result it resets the form and reloads the list
\* of the form.
C29_SubmitFollowsTheResult ==
    formLast.op = "settled" =>
        /\ formLast.result # "none"
        /\ formLast.result = "errorObject" =>
               (formLast.alerted = "error" /\ ~formLast.reset /\ formLast.reloaded = "none")
        /\ formLast.result # "errorObject" =>
               (formLast.reset /\ formLast.reloaded = ListOf(formLast.form))

(***************************************************************************)
(* The two converter forms compared (SpecConvert).                         *)
(***************************************************************************)
\* the text a display stands for: the message, or the symbol and the number
TextOf(d) == <<d.kind, d.sym, d.digits, d.num>>

\* the amount field a conversion read, from what it left behind
InputOf(d) == [nan |-> d.nan, n |-> (d.amount[1] * 1000) \div d.amount[2]]

\* C30: for the table, the amount and the two currencies of any conversion
\* made through the converter form, convertCurrencyAmount of the main page
\* and convertCurrencyAmount of the Plaid page show the same text.
C30_ConvertersAgree ==
    shown.op = "convertCurrencyAmount" =>
        TextOf(MainConvertCurrencyAmount(customRates, InputOf(shown), shown.from, shown.to))
          = TextOf(PlaidConvertCurrencyAmount(customRates, InputOf(shown), shown.from, shown.to))
====
